---- MODULE Spec2Model ----
(***************************************************************************)
(* State-machine model of the UbyAgro back end:                            *)
(*   - src/uby/api.py: the HTTP endpoints create_project,                  *)
(*     get_project_status and get_project_analysis, which in this          *)
(*     repository answer from in-memory mock data;                         *)
(*   - src/uby/agents/ale.py: run_ale_chat, the chat entry point of the    *)
(*     regulatory agent, which builds the message list handed to the       *)
(*     agent from the project context, the caller's history and the new    *)
(*     user message.                                                       *)
(* Free text that no operation inspects (summaries, details, financial     *)
(* projection, the system instructions) is left out of the records; every  *)
(* field an operation reads or writes is kept.                             *)
(***************************************************************************)
EXTENDS Integers, Sequences, FiniteSets, TLC

VARIABLES
    uploads,             \* project ids whose uploads/<id>.pdf create_project wrote
    MOCK_ANALYSIS_DATA,  \* the module-level dict of api.py (a mutable global)
    status_log,          \* per project id: the snapshots get_project_status returned
    analysis_log,        \* per project id: the results get_project_analysis returned
    requests,            \* HTTP requests served so far
    session_history,        \* per chat session: the history the caller holds
    chat_log,            \* per chat session: one record per run_ale_chat call
    chat_calls,          \* run_ale_chat calls made so far
    tool_fn,             \* per tool call: the function called, "none" before the call
    tool_pc,             \* per tool call: where the call stands
    playwright,          \* per tool call: its async_playwright() instance
    browser              \* per tool call: the browser it launched

vars == <<uploads, MOCK_ANALYSIS_DATA, status_log, analysis_log, requests,
          session_history, chat_log, chat_calls,
          tool_fn, tool_pc, playwright, browser>>

apiVars == <<uploads, MOCK_ANALYSIS_DATA, status_log, analysis_log, requests>>
chatVars == <<session_history, chat_log, chat_calls>>
toolVars == <<tool_fn, tool_pc, playwright, browser>>

----------------------------------------------------------------------------
(* Bounds of the model. *)

\* project ids 1..MaxProjects stand for the ids uuid4 can produce
MaxProjects == 2
\* HTTP requests in one behaviour
MaxRequests == 4
\* chat sessions (one caller-held history each)
MaxSessions == 2
\* run_ale_chat calls in one behaviour, over all sessions
MaxChatCalls == 3
\* calls of a web-extraction function in one behaviour
MaxToolCalls == 2

\* The id the mock data carries, "proj-abc123": six hex digits, so never an id
\* create_project generates (eight), but one a client may ask for.
MockProjectId == 0

GeneratedIds == 1..MaxProjects
ProjectIds == {MockProjectId} \cup GeneratedIds
Sessions == 1..MaxSessions
ToolCalls == 1..MaxToolCalls

\* The agents of the platform: the keys of the mock data and of the chat route.
AgentIds == {"ale", "merc", "pat", "dex"}

----------------------------------------------------------------------------
(* api.py: the mock data and the endpoints. *)

\* Faulty variant of MockAnalysisData: the overall score is the mean of the four
\* scores and the recommendation the one the thresholds give for it.
MockAnalysisData_computed ==
    [ project_id |-> MockProjectId,
      project_name |-> "Bioestimulante Algas Soja",
      overall_score |-> 84,
      recommendation |-> "VIAVEL",
      analyzed_at |-> "import-time",
      agents |->
        [ ale  |-> [agent_name |-> "Ale",  agent_role |-> "Regulatoria",
                    status |-> "verde",   score |-> 90],
          merc |-> [agent_name |-> "Merc", agent_role |-> "Mercado",
                    status |-> "verde",   score |-> 85],
          pat  |-> [agent_name |-> "Pat",  agent_role |-> "Patentes",
                    status |-> "amarelo", score |-> 75],
          dex  |-> [agent_name |-> "Dex",  agent_role |-> "Dados e Ciencia",
                    status |-> "verde",   score |-> 88] ],
      action_items |-> << "Contatar Embrapa Soja para parceria",
                          "Iniciar testes de formulacao alternativa" >>,
      alerts |-> << >> ]

MockAnalysisData ==
    [ project_id |-> MockProjectId,
      project_name |-> "Bioestimulante Algas Soja",
      overall_score |-> 82,
      recommendation |-> "VIAVEL_COM_AJUSTES",
      analyzed_at |-> "import-time",
      agents |->
        [ ale  |-> [agent_name |-> "Ale",  agent_role |-> "Regulatoria",
                    status |-> "verde",   score |-> 90],
          merc |-> [agent_name |-> "Merc", agent_role |-> "Mercado",
                    status |-> "verde",   score |-> 85],
          pat  |-> [agent_name |-> "Pat",  agent_role |-> "Patentes",
                    status |-> "amarelo", score |-> 75],
          dex  |-> [agent_name |-> "Dex",  agent_role |-> "Dados e Ciencia",
                    status |-> "verde",   score |-> 88] ],
      action_items |-> << "Contatar Embrapa Soja para parceria",
                          "Iniciar testes de formulacao alternativa" >>,
      alerts |-> << >> ]

\* Faulty variant of get_project_status: the simulated progress runs in a loop, so a
\* run seen completed on the first poll is processing again on the next.
get_project_status_looping(project_id) ==
    LET again == status_log[project_id] # << >> IN
    [ project_id |-> project_id,
      status |-> "processing",
      progress |->
        [ ale  |-> [status |-> IF again THEN "processing" ELSE "completed",
                    progress_percent |-> IF again THEN 25 ELSE 100,
                    estimated_time_remaining_seconds |-> IF again THEN 45 ELSE 0],
          merc |-> [status |-> "processing", progress_percent |-> 75,
                    estimated_time_remaining_seconds |-> 15],
          pat  |-> [status |-> "processing", progress_percent |-> 50,
                    estimated_time_remaining_seconds |-> 30],
          dex  |-> [status |-> "pending",    progress_percent |-> 0,
                    estimated_time_remaining_seconds |-> 60] ],
      overall_progress_percent |-> 56 ]

\* Faulty variant of get_project_status: the estimate counts down with every poll,
\* and the entry of an agent still pending is left out.
get_project_status_ticking(project_id) ==
    LET polls == Len(status_log[project_id]) IN
    [ project_id |-> project_id,
      status |-> "processing",
      progress |->
        [ ale  |-> [status |-> "completed",  progress_percent |-> 100,
                    estimated_time_remaining_seconds |-> 0],
          merc |-> [status |-> "processing", progress_percent |-> 75 + polls,
                    estimated_time_remaining_seconds |-> 15 - polls],
          pat  |-> [status |-> "processing", progress_percent |-> 50 + polls,
                    estimated_time_remaining_seconds |-> 30 - polls] ],
      overall_progress_percent |-> 56 ]

\* The snapshot returned for project_id: a literal, whatever the project.
get_project_status(project_id) ==
    [ project_id |-> project_id,
      status |-> "processing",
      progress |->
        [ ale  |-> [status |-> "completed",  progress_percent |-> 100,
                    estimated_time_remaining_seconds |-> 0],
          merc |-> [status |-> "processing", progress_percent |-> 75,
                    estimated_time_remaining_seconds |-> 15],
          pat  |-> [status |-> "processing", progress_percent |-> 50,
                    estimated_time_remaining_seconds |-> 30],
          dex  |-> [status |-> "pending",    progress_percent |-> 0,
                    estimated_time_remaining_seconds |-> 60] ],
      overall_progress_percent |-> 56 ]

Init ==
    /\ uploads = {}
    /\ MOCK_ANALYSIS_DATA = MockAnalysisData
    /\ status_log = [p \in ProjectIds |-> << >>]
    /\ analysis_log = [p \in ProjectIds |-> << >>]
    /\ requests = 0
    /\ session_history = [s \in Sessions |-> << >>]
    /\ chat_log = [s \in Sessions |-> << >>]
    /\ chat_calls = 0
    /\ tool_fn = [k \in ToolCalls |-> "none"]
    /\ tool_pc = [k \in ToolCalls |-> "idle"]
    /\ playwright = [k \in ToolCalls |-> "none"]
    /\ browser = [k \in ToolCalls |-> "none"]

\* POST /api/v1/projects: a fresh id, the PDF written under uploads/; no
\* analysis is enqueued (the enqueue is a TODO comment).
CreateProject(project_id) ==
    /\ requests < MaxRequests
    /\ project_id \in GeneratedIds \ uploads
    /\ uploads' = uploads \cup {project_id}
    /\ requests' = requests + 1
    /\ UNCHANGED <<MOCK_ANALYSIS_DATA, status_log, analysis_log>>
    /\ UNCHANGED chatVars
    /\ UNCHANGED toolVars

\* GET /api/v1/projects/{project_id}/status, for any project_id.
GetProjectStatus(project_id) ==
    /\ requests < MaxRequests
    /\ status_log' = [status_log EXCEPT
                        ![project_id] = Append(@, get_project_status(project_id))]
    /\ requests' = requests + 1
    /\ UNCHANGED <<uploads, MOCK_ANALYSIS_DATA, analysis_log>>
    /\ UNCHANGED chatVars
    /\ UNCHANGED toolVars

\* Faulty variant of GetProjectAnalysis: without .copy() mock_data is the global dict
\* itself, and the assignment of project_id writes into it.
GetProjectAnalysis_aliased(project_id) ==
    /\ requests < MaxRequests
    /\ LET mock_data == [MOCK_ANALYSIS_DATA EXCEPT !.project_id = project_id]
       IN  /\ analysis_log' = [analysis_log EXCEPT
                                 ![project_id] = Append(@, mock_data)]
           /\ MOCK_ANALYSIS_DATA' = mock_data
    /\ requests' = requests + 1
    /\ UNCHANGED <<uploads, status_log>>
    /\ UNCHANGED chatVars
    /\ UNCHANGED toolVars

\* GET /api/v1/projects/{project_id}/analysis, for any project_id:
\*   mock_data = MOCK_ANALYSIS_DATA.copy(); mock_data["project_id"] = project_id
\* The copy is a new top-level dict, so the assignment leaves the global alone.
GetProjectAnalysis(project_id) ==
    /\ requests < MaxRequests
    /\ LET mock_data == [MOCK_ANALYSIS_DATA EXCEPT !.project_id = project_id]
       IN  analysis_log' = [analysis_log EXCEPT
                              ![project_id] = Append(@, mock_data)]
    /\ MOCK_ANALYSIS_DATA' = MOCK_ANALYSIS_DATA
    /\ requests' = requests + 1
    /\ UNCHANGED <<uploads, status_log>>
    /\ UNCHANGED chatVars
    /\ UNCHANGED toolVars

Next ==
    \/ \E p \in ProjectIds : CreateProject(p)
    \/ \E p \in ProjectIds : GetProjectStatus(p)
    \/ \E p \in ProjectIds : GetProjectAnalysis(p)

Spec == Init /\ [][Next]_vars

----------------------------------------------------------------------------
(* agents/ale.py: run_ale_chat. *)

\* A text is a tuple of lines, so that the context text and a typed text are
\* values of one kind.
UserMessage(text) == [role |-> "user", text |-> text]
AssistantMessage(text) == [role |-> "assistant", text |-> text]

\* The project_context dicts a caller passes: with and without the optional
\* key status_regulatorio.
ProjectContexts ==
    { [name |-> "Bioestimulante Algas Soja", category |-> "bioestimulantes",
       target_crop |-> "soja"],
      [name |-> "Bioestimulante Algas Soja", category |-> "bioestimulantes",
       target_crop |-> "soja", status_regulatorio |-> "Registrado"] }

\* The f-string of run_ale_chat; .get('status_regulatorio', 'Em analise').
context_message(project_context) ==
    << "[CONTEXTO DO PROJETO]",
       project_context.name,
       project_context.category,
       project_context.target_crop,
       IF "status_regulatorio" \in DOMAIN project_context
       THEN project_context.status_regulatorio
       ELSE "Em analise" >>

\* What a user may type: any string, the text of a context turn included.
UserTexts ==
    { << "Qual o prazo de registro?" >> } \cup
    { context_message(pc) : pc \in {c \in ProjectContexts : DOMAIN c =
                                      {"name", "category", "target_crop"}} }

\* output.content of agent.run_async: no content, or one text part.
AgentContents == { << >>, << [text |-> << "Resposta de Ale" >>] >> }

\* Faulty variant of run_ale_chat_messages: the context turn is put in front only
\* when the history is empty, that is on the first call of a session.
run_ale_chat_messages_first_only(user_message, project_context, chat_history) ==
    IF chat_history = << >>
    THEN << UserMessage(context_message(project_context)),
            UserMessage(user_message) >>
    ELSE chat_history \o << UserMessage(user_message) >>

\* The list handed to agent.run_async: the context turn, then the history,
\* then the new user message. The context turn is built on every call.
run_ale_chat_messages(user_message, project_context, chat_history) ==
    << UserMessage(context_message(project_context)) >>
        \o chat_history
        \o << UserMessage(user_message) >>

\* output.content[0].text if output.content else the fixed fallback.
run_ale_chat_reply(content) ==
    IF content # << >>
    THEN content[1].text
    ELSE << "Desculpe, nao consegui gerar resposta." >>

\* One call of run_ale_chat on session s. The caller passes the history it
\* holds and afterwards extends it with the user turn and the reply.
RunAleChat(s, user_message, project_context, content) ==
    /\ chat_calls < MaxChatCalls
    /\ LET messages == run_ale_chat_messages(user_message, project_context,
                                             session_history[s])
           reply == run_ale_chat_reply(content)
       IN  /\ chat_log' = [chat_log EXCEPT ![s] = Append(@,
                  [ user_message |-> user_message,
                    project_context |-> project_context,
                    chat_history |-> session_history[s],
                    messages |-> messages,
                    reply |-> reply ])]
           /\ session_history' = [session_history EXCEPT ![s] =
                  @ \o << UserMessage(user_message), AssistantMessage(reply) >>]
    /\ chat_calls' = chat_calls + 1
    /\ UNCHANGED apiVars
    /\ UNCHANGED toolVars

ChatNext ==
    \E s \in Sessions, um \in UserTexts, pc \in ProjectContexts,
       content \in AgentContents : RunAleChat(s, um, pc, content)

ChatSpec == Init /\ [][ChatNext]_vars

----------------------------------------------------------------------------
(* agents/ale.py: buscar_portal_mapa, and example.py:                      *)
(* example_extractor_usage. Both run the extraction inside                 *)
(*   async with async_playwright() as p:                                   *)
(*       browser = await p.chromium.launch(headless=True)                  *)
(* buscar_portal_mapa closes the browser itself after a successful         *)
(* extraction; example_extractor_usage never does. Leaving the async with  *)
(* block, by return, exception or cancellation, stops the Playwright       *)
(* instance, and stopping it ends the browsers launched from it.           *)

ToolFunctions == {"buscar_portal_mapa", "example_extractor_usage"}

\* How a call can end.
ToolExits == {"returned", "raised", "cancelled"}

\* Faulty variant of AsyncWithExit: the Playwright instance is started
\* without the async with block, so leaving the body stops nothing and a
\* browser the body did not close itself stays open.
AsyncWithExit_not_scoped(k, outcome) ==
    /\ tool_pc' = [tool_pc EXCEPT ![k] = outcome]
    /\ UNCHANGED <<playwright, browser>>

\* __aexit__ of async_playwright(), on every way out of the block.
AsyncWithExit(k, outcome) ==
    /\ tool_pc' = [tool_pc EXCEPT ![k] = outcome]
    /\ playwright' = [playwright EXCEPT ![k] = "stopped"]
    /\ browser' = [browser EXCEPT ![k] = IF @ = "open" THEN "closed" ELSE @]

\* The call starts: provider and extractor are built.
CallTool(k, fn) ==
    /\ tool_pc[k] = "idle"
    /\ tool_fn' = [tool_fn EXCEPT ![k] = fn]
    /\ tool_pc' = [tool_pc EXCEPT ![k] = "enter"]
    /\ UNCHANGED <<playwright, browser>>
    /\ UNCHANGED <<apiVars, chatVars>>

\* async with async_playwright() as p
EnterPlaywright(k) ==
    /\ tool_pc[k] = "enter"
    /\ playwright' = [playwright EXCEPT ![k] = "running"]
    /\ tool_pc' = [tool_pc EXCEPT ![k] = "launch"]
    /\ UNCHANGED <<tool_fn, browser>>
    /\ UNCHANGED <<apiVars, chatVars>>

\* browser = await p.chromium.launch(headless=True)
LaunchBrowser(k) ==
    /\ tool_pc[k] = "launch"
    /\ browser' = [browser EXCEPT ![k] = "open"]
    /\ tool_pc' = [tool_pc EXCEPT ![k] = "extract"]
    /\ UNCHANGED <<tool_fn, playwright>>
    /\ UNCHANGED <<apiVars, chatVars>>

\* The launch raises: the exception leaves the block.
LaunchFails(k) ==
    /\ tool_pc[k] = "launch"
    /\ AsyncWithExit(k, "raised")
    /\ UNCHANGED tool_fn
    /\ UNCHANGED <<apiVars, chatVars>>

\* result = await extractor.extract_async(...) returns. buscar_portal_mapa
\* goes on to browser.close(), example_extractor_usage to the end of the block.
ExtractReturns(k) ==
    /\ tool_pc[k] = "extract"
    /\ tool_pc' = [tool_pc EXCEPT ![k] =
                     IF tool_fn[k] = "buscar_portal_mapa" THEN "close" ELSE "leave"]
    /\ UNCHANGED <<tool_fn, playwright, browser>>
    /\ UNCHANGED <<apiVars, chatVars>>

\* extract_async raises (the extraction fails, or timeout_ms runs out): the
\* exception leaves the block past browser.close().
ExtractFails(k) ==
    /\ tool_pc[k] = "extract"
    /\ AsyncWithExit(k, "raised")
    /\ UNCHANGED tool_fn
    /\ UNCHANGED <<apiVars, chatVars>>

\* await browser.close()
CloseBrowser(k) ==
    /\ tool_pc[k] = "close"
    /\ browser' = [browser EXCEPT ![k] = "closed"]
    /\ tool_pc' = [tool_pc EXCEPT ![k] = "leave"]
    /\ UNCHANGED <<tool_fn, playwright>>
    /\ UNCHANGED <<apiVars, chatVars>>

\* The last statement of the block reads result.output_parsed: it returns
\* (or prints) the field, or raises when there is no parsed output.
LeaveBlock(k, outcome) ==
    /\ tool_pc[k] = "leave"
    /\ AsyncWithExit(k, outcome)
    /\ UNCHANGED tool_fn
    /\ UNCHANGED <<apiVars, chatVars>>

\* The task is cancelled while it waits in one of the awaits of the block:
\* CancelledError is raised there and leaves the block.
CancelInBlock(k) ==
    /\ tool_pc[k] \in {"launch", "extract", "close"}
    /\ AsyncWithExit(k, "cancelled")
    /\ UNCHANGED tool_fn
    /\ UNCHANGED <<apiVars, chatVars>>

\* The task is cancelled while it waits to enter the block: nothing started.
CancelBeforeBlock(k) ==
    /\ tool_pc[k] = "enter"
    /\ tool_pc' = [tool_pc EXCEPT ![k] = "cancelled"]
    /\ UNCHANGED <<tool_fn, playwright, browser>>
    /\ UNCHANGED <<apiVars, chatVars>>

ToolNext ==
    \/ \E k \in ToolCalls, fn \in ToolFunctions : CallTool(k, fn)
    \/ \E k \in ToolCalls : EnterPlaywright(k)
    \/ \E k \in ToolCalls : LaunchBrowser(k)
    \/ \E k \in ToolCalls : LaunchFails(k)
    \/ \E k \in ToolCalls : ExtractReturns(k)
    \/ \E k \in ToolCalls : ExtractFails(k)
    \/ \E k \in ToolCalls : CloseBrowser(k)
    \/ \E k \in ToolCalls : LeaveBlock(k, "returned")
    \/ \E k \in ToolCalls : LeaveBlock(k, "raised")
    \/ \E k \in ToolCalls : CancelInBlock(k)
    \/ \E k \in ToolCalls : CancelBeforeBlock(k)

ToolSpec == Init /\ [][ToolNext]_vars

----------------------------------------------------------------------------
(* The claims. *)

\* The moves of an AgentRun the design allows, and what can follow from them
\* between two snapshots.
AgentRunStep(from, to) ==
    \/ from = "pending" /\ to = "processing"
    \/ from = "processing" /\ to \in {"completed", "failed"}

AgentRunStates == {"pending", "processing", "completed", "failed"}

AgentRunReaches(from, to) ==
    \/ from = to
    \/ AgentRunStep(from, to)
    \/ \E mid \in AgentRunStates : AgentRunStep(from, mid) /\ AgentRunStep(mid, to)

TerminalStates == {"completed", "failed"}

\* C1, as claimed: the context turn is put in once, in front of the first
\* user turn of a session; on a second or later chat call of the session
\* run_ale_chat sends the history and the new user turn, and no context turn.
C1_ContextInjectedOnFirstCallOnly ==
    \A s \in Sessions : \A i \in 1..Len(chat_log[s]) :
        LET c == chat_log[s][i] IN
        IF i = 1
        THEN c.messages = << UserMessage(context_message(c.project_context)),
                             UserMessage(c.user_message) >>
        ELSE c.messages = c.chat_history \o << UserMessage(c.user_message) >>

\* C1, amended: on every chat call of a session, the first and the later ones
\* alike, the list sent to the agent has the context turn built from that
\* call's project context at index 0, then the caller's history unchanged,
\* then the new user turn as its last element.
C1_ContextPrependedOnEveryCall ==
    \A s \in Sessions : \A i \in 1..Len(chat_log[s]) :
        LET c == chat_log[s][i]
            m == c.messages
        IN  /\ Len(m) = Len(c.chat_history) + 2
            /\ m[1] = UserMessage(context_message(c.project_context))
            /\ \A k \in 1..Len(c.chat_history) : m[k + 1] = c.chat_history[k]
            /\ m[Len(m)] = UserMessage(c.user_message)

\* C1, witness: a session whose second call carries a non-empty history and
\* a context turn that differs from the one of its first call.
C1_SecondCallWithNewContext ==
    \E s \in Sessions :
        /\ Len(chat_log[s]) >= 2
        /\ chat_log[s][2].chat_history # << >>
        /\ chat_log[s][2].messages[1] # chat_log[s][1].messages[1]

\* C2: between two consecutive snapshots of a project every AgentRun is
\* where it was or further along pending -> processing -> completed | failed,
\* and a run seen completed or failed is in that same state ever after.
C2_AgentRunMovesForwardOnly ==
    \A p \in ProjectIds : \A i \in 1..Len(status_log[p]) :
        \A j \in i..Len(status_log[p]) : \A a \in AgentIds :
            LET from == status_log[p][i].progress[a].status
                to == status_log[p][j].progress[a].status
            IN  /\ AgentRunReaches(from, to)
                /\ from \in TerminalStates => to = from

\* C2, witness: a run seen completed, and the project polled again.
C2_TerminalRunPolledAgain ==
    \E p \in ProjectIds :
        /\ Len(status_log[p]) >= 2
        /\ status_log[p][1].progress["ale"].status \in TerminalStates

\* C3, as claimed: a project has an analysis result only when every one of
\* its AgentRuns is completed or failed; while one is pending or processing
\* get_analysis has returned no result for it.
C3_AnalysisOnlyWhenAllRunsTerminal ==
    \A p \in ProjectIds :
        analysis_log[p] # << >> =>
            \A a \in AgentIds :
                get_project_status(p).progress[a].status \in TerminalStates

\* The scores and statuses of Scenario A.
ScenarioA(agents) ==
    /\ DOMAIN agents = AgentIds
    /\ agents["ale"].score = 90  /\ agents["ale"].status = "verde"
    /\ agents["merc"].score = 85 /\ agents["merc"].status = "verde"
    /\ agents["pat"].score = 75  /\ agents["pat"].status = "amarelo"
    /\ agents["dex"].score = 88  /\ agents["dex"].status = "verde"

\* The equal-weighted mean of the four scores, as an integer.
EqualWeightedMean(agents) ==
    (agents["ale"].score + agents["merc"].score
        + agents["pat"].score + agents["dex"].score) \div 4

\* The thresholds the claim fixes.
ThresholdRecommendation(score) ==
    IF score >= 80 THEN "VIAVEL"
    ELSE IF score >= 50 THEN "VIAVEL_COM_AJUSTES"
    ELSE "NAO_VIAVEL"

\* C5, as claimed: a result for the four runs of Scenario A has the
\* equal-weighted mean, 84, as overall_score and VIAVEL_COM_AJUSTES as
\* recommendation.
C5_ScenarioAYieldsMean ==
    \A p \in ProjectIds : \A i \in 1..Len(analysis_log[p]) :
        LET r == analysis_log[p][i] IN
        ScenarioA(r.agents) =>
            /\ r.overall_score = EqualWeightedMean(r.agents)
            /\ r.overall_score = 84
            /\ r.recommendation = "VIAVEL_COM_AJUSTES"

\* C5, amended: every result served carries the four runs of Scenario A,
\* the overall_score 82, which is not their equal-weighted mean (84), and
\* the recommendation VIAVEL_COM_AJUSTES, which is not what the thresholds
\* give for 82: the two values are stored, not computed.
C5_ScenarioAServedAsStored ==
    \A p \in ProjectIds : \A i \in 1..Len(analysis_log[p]) :
        LET r == analysis_log[p][i] IN
        /\ ScenarioA(r.agents)
        /\ r.overall_score = 82
        /\ r.overall_score # EqualWeightedMean(r.agents)
        /\ r.recommendation = "VIAVEL_COM_AJUSTES"
        /\ r.recommendation # ThresholdRecommendation(r.overall_score)
        /\ r.alerts = << >>

\* C5, witness: a result served for a project create_project made.
C5_ResultServedForCreatedProject ==
    \E p \in uploads : analysis_log[p] # << >>

\* C9: all the snapshots get_status has returned for a project are equal
\* (the program has no agent event that could fall between two of them),
\* each has an entry for every agent and names the project asked for; and a
\* step that returns a snapshot changes nothing else: not the uploads, not
\* the stored analysis data, not the results returned.
C9_GetStatusReadsOnly ==
    /\ [](\A p \in ProjectIds : \A i \in 1..Len(status_log[p]) :
            /\ status_log[p][i] = status_log[p][1]
            /\ status_log[p][i].project_id = p
            /\ DOMAIN status_log[p][i].progress = AgentIds)
    /\ [][(status_log' # status_log) =>
            UNCHANGED <<uploads, MOCK_ANALYSIS_DATA, analysis_log, chatVars,
                        toolVars>>]_vars

\* C9, witness: a created project polled three times.
C9_CreatedProjectPolledThrice ==
    \E p \in uploads : Len(status_log[p]) >= 3

====
